---- MODULE Spec2Model ----
(***************************************************************************)
(* A model of render_breadboard_svg.py: the geometry functions, the        *)
(* primitive emitters, render_board and main.                              *)
(*                                                                         *)
(* A drawing is a sequence of primitives.  A primitive keeps the           *)
(* geometric attributes the code formats into the SVG element (kind,       *)
(* coordinates, size, text) and a field "by" naming the function of        *)
(* render_board / main that emitted it.  Presentation attributes (colours, *)
(* stroke widths, fonts, corner radii) are left out.  Strings that the     *)
(* code indexes or parses (pads, labels) are sequences of one-character    *)
(* strings.  All pixel values the code computes are whole numbers for the  *)
(* constants of the source (CELL_H*0.5 = 9, HOLE_W/2 = 3, ...), so they    *)
(* are Integers here.                                                      *)
(***************************************************************************)
EXTENDS Integers, Sequences, FiniteSets, TLC

\* ------------------------------------------------------------ bounds
\* Columns of the boards that are rendered: 1..MaxColumns and the full-size board.
MaxColumns == 11
\* Components main reads from the layout.
MaxComponents == 2
\* Columns of the boards rendered between the calls of the geometry functions.
MaxLibColumns == 1

\* ------------------------------------------------------------ constants
CELL_W == 18
CELL_H == 18
MARGIN_X == 48
MARGIN_Y == 36
RAIL_GAP == 8
TRENCH_H == 22
TOP_RAIL_OFFSET == -6
TOP_RAIL_CLEARANCE == 12
BOTTOM_RAIL_OFFSET == 2
RAIL_HOLE_OFFSET == 0
RAIL_LINE_OFFSET == 6
TOP_RAIL_GAP == 0
BOTTOM_RAIL_GAP == 0
RAIL_GROUPS == 10
RAIL_GROUP_SIZE == 5
RAIL_GROUP_GAP_COLS == 1
NUMBER_EVERY == 5
NUM_TOP_OFFSET == 10
NUM_BOTTOM_OFFSET == 10
NUMBER_X_OFFSET_COLS == -1
ROW_LABEL_EDGE_OFFSET == 10
HOLE_W == 6
HOLE_H == 6
MARKER_EDGE_OFFSET == 10
\* The full-size board the preview is made for.
FullColumns == 63

ROW_LABELS == <<"A", "B", "C", "D", "E", "F", "G", "H", "I", "J">>
ROW_INDEX == [ch \in {ROW_LABELS[i] : i \in 1..Len(ROW_LABELS)} |->
                 (CHOOSE i \in 1..Len(ROW_LABELS) : ROW_LABELS[i] = ch) - 1]

\* ------------------------------------------------------------ results
\* A call either returns a value or raises.
Ok(v) == [err |-> "none", val |-> v]
Raise(e) == [err |-> e, val |-> <<>>]

\* ------------------------------------------------------------ strings
Digits == <<"0", "1", "2", "3", "4", "5", "6", "7", "8", "9">>
IsDigit(c) == \E i \in 1..10 : Digits[i] = c
DigitVal(c) == (CHOOSE i \in 1..10 : Digits[i] = c) - 1

RECURSIVE DigitsOf(_)
DigitsOf(n) == IF n < 10 THEN <<Digits[n + 1]>>
               ELSE DigitsOf(n \div 10) \o <<Digits[(n % 10) + 1]>>
\* str(n) of an integer
str(n) == IF n < 0 THEN <<"-">> \o DigitsOf(-n) ELSE DigitsOf(n)

RECURSIVE lstrip(_)
lstrip(s) == IF s # <<>> /\ Head(s) = " " THEN lstrip(Tail(s)) ELSE s
RECURSIVE rstrip(_)
rstrip(s) == IF s # <<>> /\ s[Len(s)] = " " THEN rstrip(SubSeq(s, 1, Len(s) - 1)) ELSE s
strip(s) == rstrip(lstrip(s))

Lower == <<"a", "b", "c", "d", "e", "f", "g", "h", "i", "j", "k", "l", "m",
           "n", "o", "p", "q", "r", "s", "t", "u", "v", "w", "x", "y", "z">>
Upper == <<"A", "B", "C", "D", "E", "F", "G", "H", "I", "J", "K", "L", "M",
           "N", "O", "P", "Q", "R", "S", "T", "U", "V", "W", "X", "Y", "Z">>
upper_char(c) == IF \E i \in 1..26 : Lower[i] = c
                 THEN Upper[CHOOSE i \in 1..26 : Lower[i] = c] ELSE c
lower_char(c) == IF \E i \in 1..26 : Upper[i] = c
                 THEN Lower[CHOOSE i \in 1..26 : Upper[i] = c] ELSE c
upper(s) == [i \in 1..Len(s) |-> upper_char(s[i])]
lower(s) == [i \in 1..Len(s) |-> lower_char(s[i])]

RECURSIVE DigitsValue(_, _)
DigitsValue(s, acc) == IF s = <<>> THEN acc
                       ELSE DigitsValue(Tail(s), acc * 10 + DigitVal(Head(s)))
\* int(s): surrounding blanks and one sign are accepted, then decimal digits.
py_int(s) ==
    LET t == strip(s)
        signed == t # <<>> /\ Head(t) \in {"+", "-"}
        body == IF signed THEN Tail(t) ELSE t
    IN  IF body = <<>> \/ \E i \in 1..Len(body) : ~IsDigit(body[i])
        THEN Raise("ValueError")
        ELSE Ok(IF signed /\ Head(t) = "-" THEN -DigitsValue(body, 0)
                ELSE DigitsValue(body, 0))

\* ------------------------------------------------------------ primitives
Prim(kind, x, y, x2, y2, w, h, text) ==
    [kind |-> kind, x |-> x, y |-> y, x2 |-> x2, y2 |-> y2, w |-> w, h |-> h,
     text |-> text, by |-> ""]
\* The primitives of a block, marked with the function that emitted them.
Emit(block, by) == [i \in 1..Len(block) |-> [block[i] EXCEPT !.by = by]]

tx_rot(x, y, t) == Prim("text_rot", x, y, 0, 0, 0, 0, t)
svg_header(w, h) == Prim("svg_open", 0, 0, 0, 0, w, h, <<>>)
svg_close == Prim("svg_close", 0, 0, 0, 0, 0, 0, <<>>)
tx(x, y, t) == Prim("text", x, y, 0, 0, 0, 0, t)
hole(x, y) == Prim("hole", x - HOLE_W \div 2, y - HOLE_H \div 2, 0, 0, HOLE_W, HOLE_H, <<>>)
line(x1, y1, x2, y2) == Prim("line", x1, y1, x2, y2, 0, 0, <<>>)
rect(x, y, w, h) == Prim("rect", x, y, 0, 0, w, h, <<>>)

\* ------------------------------------------------------------ geometry
col_to_x(col) == MARGIN_X + col * CELL_W

middle_row_y(row_idx, top_rails) ==
    LET y0 == MARGIN_Y + (IF top_rails THEN CELL_H * 2 + TOP_RAIL_GAP + TOP_RAIL_CLEARANCE ELSE 0)
    IN  IF row_idx <= 4 THEN y0 + row_idx * CELL_H
        ELSE y0 + 5 * CELL_H + TRENCH_H + (row_idx - 5) * CELL_H

\* bh is the module global board_height as the call reads it: <<>> while the
\* name is unbound, <<h>> once render_board has assigned h.
rails_y_positions(top, bh) ==
    IF ~top /\ bh = <<>> THEN Raise("NameError")
    ELSE LET gap == IF top THEN TOP_RAIL_GAP ELSE BOTTOM_RAIL_GAP
             base == IF top THEN MARGIN_Y + TOP_RAIL_OFFSET
                     ELSE bh[1] - MARGIN_Y - (CELL_H * 2 + gap) + BOTTOM_RAIL_OFFSET
         IN  Ok(<<base + CELL_H \div 2, base + (CELL_H * 3) \div 2 + gap>>)

\* ------------------------------------------------------------ emitters
\* range(a, b) as a sequence
range(a, b) == [i \in 1..(b - a) |-> a + i - 1]

RECURSIVE Flatten(_)
Flatten(blocks) == IF blocks = <<>> THEN <<>> ELSE Head(blocks) \o Flatten(Tail(blocks))

\* The cursor after group g: it moves past the group and the blank slot,
\* except after the last group.
rail_cursor_ForgetGap(g, x) ==
    IF g < RAIL_GROUPS - 1 THEN x + RAIL_GROUP_SIZE * CELL_W ELSE x
rail_cursor_next(g, x) ==
    IF g < RAIL_GROUPS - 1 THEN x + (RAIL_GROUP_SIZE + RAIL_GROUP_GAP_COLS) * CELL_W ELSE x

\* The loop over the groups from group g with the cursor at x: the holes
\* emitted and the cursor when the loop ends.
RECURSIVE rail_groups(_, _, _)
rail_groups(g, x, y_center) ==
    IF g >= RAIL_GROUPS THEN [parts |-> <<>>, x |-> x]
    ELSE LET holes == [i \in 1..RAIL_GROUP_SIZE |-> hole(x + i * CELL_W, y_center)]
             rest == rail_groups(g + 1, rail_cursor_next(g, x), y_center)
         IN  [parts |-> holes \o rest.parts, x |-> rest.x]

rail_left_px(columns) ==
    LET total_group_cols == RAIL_GROUPS * RAIL_GROUP_SIZE + (RAIL_GROUPS - 1) * RAIL_GROUP_GAP_COLS
        total_width_px == columns * CELL_W
        groups_width_px == total_group_cols * CELL_W
    IN  MARGIN_X + (total_width_px - groups_width_px) \div 2

draw_grouped_rail_holes(columns, y_center) ==
    rail_groups(0, rail_left_px(columns), y_center)

draw_rails(columns, top, bh) ==
    LET r == rails_y_positions(top, bh) IN
    IF r.err # "none" THEN r
    ELSE LET y_plus == r.val[1]
             y_minus == r.val[2]
             width == columns * CELL_W
             x1 == MARGIN_X - 18
             x2 == MARGIN_X - 18 + width + 36
             x_left_mark == MARGIN_X - MARKER_EDGE_OFFSET
             x_right_mark == MARGIN_X + columns * CELL_W + MARKER_EDGE_OFFSET
         IN  Ok(<<line(x1, y_plus - RAIL_LINE_OFFSET, x2, y_plus - RAIL_LINE_OFFSET),
                  line(x1, y_minus + RAIL_LINE_OFFSET, x2, y_minus + RAIL_LINE_OFFSET),
                  tx(x_left_mark, y_plus + 4, <<"+">>),
                  tx(x_left_mark, y_minus + 4, <<"-">>),
                  tx(x_right_mark, y_plus + 4, <<"+">>),
                  tx(x_right_mark, y_minus + 4, <<"-">>)>>
                \o draw_grouped_rail_holes(columns, y_plus + RAIL_HOLE_OFFSET).parts
                \o draw_grouped_rail_holes(columns, y_minus + RAIL_HOLE_OFFSET).parts)

draw_row_labels(columns) ==
    LET x_left == MARGIN_X - ROW_LABEL_EDGE_OFFSET
        x_right == MARGIN_X + columns * CELL_W + ROW_LABEL_EDGE_OFFSET
    IN  Flatten([k \in 1..Len(ROW_LABELS) |->
                    <<tx_rot(x_left, middle_row_y(k - 1, TRUE), <<ROW_LABELS[k]>>),
                      tx_rot(x_right, middle_row_y(k - 1, TRUE), <<ROW_LABELS[k]>>)>>])

\* The column a label is placed at and the value it shows, for position i.
number_col(i) == (i + 1) * NUMBER_EVERY
number_label_Increasing(start, i) == (i + 1) * NUMBER_EVERY
number_label(start, i) == start - i * NUMBER_EVERY

draw_column_numbers(columns, bh) ==
    LET top == rails_y_positions(TRUE, bh)
        bot == rails_y_positions(FALSE, bh)
    IN  IF bot.err # "none" THEN bot
        ELSE LET y_top_labels == top.val[2] + RAIL_LINE_OFFSET + NUM_TOP_OFFSET
                 y_bottom_labels == bot.val[1] - RAIL_LINE_OFFSET - NUM_BOTTOM_OFFSET
                 start == (columns \div NUMBER_EVERY) * NUMBER_EVERY
                 count == start \div NUMBER_EVERY
             IN  Ok(Flatten([k \in 1..count |->
                        LET x == col_to_x(number_col(k - 1) + NUMBER_X_OFFSET_COLS)
                            t == str(number_label(start, k - 1))
                        IN  <<tx_rot(x, y_top_labels, t), tx_rot(x, y_bottom_labels, t)>>]))

\* The holes of middle row i, one per column.
row_holes_SkipLast(i, columns) ==
    LET cs == range(1, columns)
    IN  [k \in 1..Len(cs) |-> hole(col_to_x(cs[k]), middle_row_y(i, TRUE))]
row_holes(i, columns) ==
    LET cs == range(1, columns + 1)
    IN  [k \in 1..Len(cs) |-> hole(col_to_x(cs[k]), middle_row_y(i, TRUE))]

draw_middle(columns) ==
    LET y_top == middle_row_y(4, TRUE) + CELL_H \div 2
    IN  Flatten([i \in 1..5 |-> row_holes(i - 1, columns)])
        \o <<rect(MARGIN_X - 24, y_top, columns * CELL_W + 48, TRENCH_H)>>
        \o Flatten([i \in 1..5 |-> row_holes(i + 4, columns)])
        \o [k \in 1..(columns \div 5) |->
               line(col_to_x(5 * k), MARGIN_Y - 4, col_to_x(5 * k), MARGIN_Y + 2)]

pad_to_coords(pad) ==
    LET p == upper(strip(pad)) IN
    IF p = <<>> THEN Raise("IndexError")
    ELSE LET col == py_int(Tail(p)) IN
         IF col.err # "none" THEN col
         ELSE IF Head(p) \notin DOMAIN ROW_INDEX THEN Raise("KeyError")
         ELSE Ok(<<col_to_x(col.val), middle_row_y(ROW_INDEX[Head(p)], TRUE)>>)

draw_resistor(p1, p2, label) ==
    LET c1 == pad_to_coords(p1) IN
    IF c1.err # "none" THEN c1
    ELSE LET c2 == pad_to_coords(p2) IN
         IF c2.err # "none" THEN c2
         ELSE LET midx == (c1.val[1] + c2.val[1]) \div 2
                  midy == (c1.val[2] + c2.val[2]) \div 2 - 10
              IN  Ok(<<line(c1.val[1], c1.val[2], c2.val[1], c2.val[2]),
                       tx(midx, midy, IF label = <<>> THEN <<"R">> ELSE label)>>)

canvas_height(rail_top, rail_bottom) ==
    MARGIN_Y + (IF rail_top THEN CELL_H * 2 + RAIL_GAP ELSE 0)
    + 10 * CELL_H + TRENCH_H
    + (IF rail_bottom THEN CELL_H * 2 + RAIL_GAP ELSE 0) + MARGIN_Y
canvas_width(columns) == MARGIN_X + columns * CELL_W + MARGIN_X

\* The module global board_height after render_board's assignment; without
\* the global declaration the assignment would bind a local and leave it.
store_board_height_LocalOnly(global, height) == global
store_board_height(global, height) == <<height>>

\* The blocks render_board appends to parts, in the order it appends them.
RenderOrder == <<"header", "top_rails", "numbers", "middle", "row_labels", "bottom_rails">>
StepIndex(step) == CHOOSE i \in 1..Len(RenderOrder) : RenderOrder[i] = step
NextStep(step) == IF StepIndex(step) = Len(RenderOrder) THEN "return"
                  ELSE RenderOrder[StepIndex(step) + 1]

Tagged(r, by) == IF r.err # "none" THEN r ELSE Ok(Emit(r.val, by))

render_block(step, c, rt, rb, w, h, bh) ==
    CASE step = "header" ->
           Ok(Emit(<<svg_header(w, h)>>, "header") \o Emit(<<rect(0, 0, w, h)>>, "background"))
      [] step = "top_rails" ->
           IF rt THEN Tagged(draw_rails(c, TRUE, bh), "rails_top") ELSE Ok(<<>>)
      [] step = "numbers" -> Tagged(draw_column_numbers(c, bh), "numbers")
      [] step = "middle" -> Ok(Emit(draw_middle(c), "middle"))
      [] step = "row_labels" -> Ok(Emit(draw_row_labels(c), "row_labels"))
      [] step = "bottom_rails" ->
           IF rb THEN Tagged(draw_rails(c, FALSE, bh), "rails_bottom") ELSE Ok(<<>>)

\* render_board from its first append to its return value, with the global at bh.
RECURSIVE render_from(_, _, _, _, _, _, _, _)
render_from(i, acc, c, rt, rb, w, h, bh) ==
    IF i > Len(RenderOrder) THEN Ok(acc \o Emit(<<svg_close>>, "header"))
    ELSE LET r == render_block(RenderOrder[i], c, rt, rb, w, h, bh) IN
         IF r.err # "none" THEN r
         ELSE render_from(i + 1, acc \o r.val, c, rt, rb, w, h, bh)

\* ------------------------------------------------------------ inputs
Columns == (1..MaxColumns) \cup {FullColumns}

T_resistor == <<"r", "e", "s", "i", "s", "t", "o", "r">>
T_Resistor == <<"R", "e", "s", "i", "s", "t", "o", "r">>
T_led == <<"l", "e", "d">>
Comp(type, p1, p2, value) == [type |-> type, pins |-> <<p1, p2>>, value |-> value]

PadInputs == { <<"A", "1">>, <<"A", "5">>, <<"E", "5">>, <<"F", "1", "2">>,
               <<"J", "6", "3">>, <<"j", "6", "4">>, <<" ", "a", "5", " ">>,
               <<"K", "1">>, <<"A", "0">>, <<"A", "x">>, <<"A", "-", "1">>,
               <<"A">>, <<>> }

ComponentInputs ==
    { Comp(T_resistor, <<"A", "5">>, <<"E", "5">>, <<"1", "0", "k">>),
      Comp(T_Resistor, <<"A", "1">>, <<"A", "5">>, <<>>),
      Comp(T_resistor, <<"A", "5">>, <<"F", "1", "2">>, <<>>),
      Comp(T_resistor, <<"K", "1">>, <<"A", "1">>, <<>>),
      Comp(T_resistor, <<"A", "1">>, <<"A", "0">>, <<>>),
      Comp(T_resistor, <<"A", "1">>, <<"A", "x">>, <<>>),
      Comp(T_resistor, <<"J", "6", "3">>, <<"j", "6", "4">>, <<>>),
      Comp(T_led, <<"A", "1">>, <<"A", "2">>, <<>>) }

\* ------------------------------------------------------------ state
VARIABLES
    pc,                 \* where the program is
    caller,             \* who called render_board: "main" or "lib"
    columns, rail_top, rail_bottom,   \* render_board's arguments
    height, width,      \* render_board's locals
    board_height,       \* the module global: <<>> while unbound, else <<h>>
    prev_board_height,  \* history: the global as the running render_board call found it
    parts,              \* render_board's list of parts
    svg,                \* the drawing render_board returned
    comps,              \* the components main has read so far
    comp_svg,           \* main's list of component overlays
    preview,            \* breadboard_preview.html: <<>> while not written
    error,              \* the exception that ended the run, "none" otherwise
    ret                 \* the last call of a geometry function and its result

vars == <<pc, caller, columns, rail_top, rail_bottom, height, width, board_height,
          prev_board_height, parts, svg, comps, comp_svg, preview, error, ret>>

NoCall == [fn |-> "", args |-> <<>>, res |-> Ok(<<>>)]

Start ==
    /\ caller = "" /\ columns = 0 /\ rail_top = FALSE /\ rail_bottom = FALSE
    /\ height = 0 /\ width = 0 /\ board_height = <<>> /\ prev_board_height = <<>>
    /\ parts = <<>> /\ svg = <<>> /\ comps = <<>> /\ comp_svg = <<>>
    /\ preview = <<>> /\ error = "none" /\ ret = NoCall

\* The module is run as a script (main) or imported (idle, calls follow).
Init == pc \in {"main", "idle"} /\ Start

\* ------------------------------------------------------------ render_board
RenderEnter(c, rt, rb, who) ==
    /\ caller' = who
    /\ columns' = c /\ rail_top' = rt /\ rail_bottom' = rb
    /\ height' = canvas_height(rt, rb)
    /\ width' = canvas_width(c)
    /\ prev_board_height' = board_height
    /\ board_height' = store_board_height(board_height, canvas_height(rt, rb))
    /\ parts' = <<>> /\ svg' = <<>>
    /\ pc' = RenderOrder[1]
    /\ UNCHANGED <<comps, comp_svg, preview, error, ret>>

CallRenderBoard(c, rt, rb) == pc = "idle" /\ RenderEnter(c, rt, rb, "lib")

RenderStep(step) ==
    /\ pc = step
    /\ LET r == render_block(step, columns, rail_top, rail_bottom, width, height, board_height) IN
       IF r.err # "none"
       THEN pc' = "raised" /\ error' = r.err /\ parts' = <<>>
       ELSE pc' = NextStep(step) /\ error' = error /\ parts' = parts \o r.val
    /\ UNCHANGED <<caller, columns, rail_top, rail_bottom, height, width, board_height,
                   prev_board_height, svg, comps, comp_svg, preview, ret>>

RenderHeader == RenderStep("header")
RenderTopRails == RenderStep("top_rails")
RenderNumbers == RenderStep("numbers")
RenderMiddle == RenderStep("middle")
RenderRowLabels == RenderStep("row_labels")
RenderBottomRails == RenderStep("bottom_rails")

RenderReturn ==
    /\ pc = "return"
    /\ svg' = parts \o Emit(<<svg_close>>, "header")
    /\ parts' = <<>>
    /\ pc' = IF caller = "main" THEN "components" ELSE "idle"
    /\ UNCHANGED <<caller, columns, rail_top, rail_bottom, height, width, board_height,
                   prev_board_height, comps, comp_svg, preview, error, ret>>

\* ------------------------------------------------------------ main
Main(c, rt, rb) == pc = "main" /\ RenderEnter(c, rt, rb, "main")

MainComponent(comp) ==
    /\ pc = "components"
    /\ Len(comps) < MaxComponents
    /\ comps' = Append(comps, comp)
    /\ IF lower(comp.type) = T_resistor
       THEN LET r == draw_resistor(comp.pins[1], comp.pins[2], comp.value) IN
            IF r.err # "none"
            THEN pc' = "raised" /\ error' = r.err /\ comp_svg' = comp_svg
            ELSE pc' = pc /\ error' = error /\ comp_svg' = comp_svg \o Emit(r.val, "resistor")
       ELSE UNCHANGED <<pc, error, comp_svg>>
    /\ UNCHANGED <<caller, columns, rail_top, rail_bottom, height, width, board_height,
                   prev_board_height, parts, svg, preview, ret>>

MainWrite ==
    /\ pc = "components"
    /\ preview' = Emit(<<Prim("page_open", 0, 0, 0, 0, width, 0, <<>>)>>, "main")
                  \o svg \o comp_svg
                  \o Emit(<<Prim("layout_json", 0, 0, 0, 0, 0, 0, <<>>)>>, "main")
    /\ pc' = "exit"
    /\ UNCHANGED <<caller, columns, rail_top, rail_bottom, height, width, board_height,
                   prev_board_height, parts, svg, comps, comp_svg, error, ret>>

Next ==
    \/ \E c \in Columns, rt \in BOOLEAN, rb \in BOOLEAN : Main(c, rt, rb)
    \/ \E c \in Columns, rt \in BOOLEAN, rb \in BOOLEAN : CallRenderBoard(c, rt, rb)
    \/ RenderHeader
    \/ RenderTopRails
    \/ RenderNumbers
    \/ RenderMiddle
    \/ RenderRowLabels
    \/ RenderBottomRails
    \/ RenderReturn
    \/ \E comp \in ComponentInputs : MainComponent(comp)
    \/ MainWrite

Spec == Init /\ [][Next]_vars

\* ------------------------------------------------------------ library use
\* The module imported: its functions called one after another, in any
\* order, each call as a whole; ret keeps the last geometry call.
Called(fn, args, res) == ret' = [fn |-> fn, args |-> args, res |-> res]

GeometryUnchanged ==
    UNCHANGED <<pc, caller, columns, rail_top, rail_bottom, height, width, board_height,
                prev_board_height, parts, svg, comps, comp_svg, preview, error>>

LibRenderBoard(c, rt, rb) ==
    /\ pc = "idle"
    /\ caller' = "lib"
    /\ columns' = c /\ rail_top' = rt /\ rail_bottom' = rb
    /\ height' = canvas_height(rt, rb)
    /\ width' = canvas_width(c)
    /\ prev_board_height' = <<>>
    /\ board_height' = store_board_height(board_height, canvas_height(rt, rb))
    /\ LET r == render_from(1, <<>>, c, rt, rb, canvas_width(c), canvas_height(rt, rb),
                            store_board_height(board_height, canvas_height(rt, rb))) IN
       /\ svg' = r.val
       /\ error' = r.err
    /\ UNCHANGED <<pc, parts, comps, comp_svg, preview, ret>>

LibColToX(col) ==
    pc = "idle" /\ Called("col_to_x", <<col>>, Ok(col_to_x(col))) /\ GeometryUnchanged

LibMiddleRowY(row_idx, top_rails) ==
    /\ pc = "idle"
    /\ Called("middle_row_y", <<row_idx, top_rails>>, Ok(middle_row_y(row_idx, top_rails)))
    /\ GeometryUnchanged

LibRailsYPositions(top) ==
    /\ pc = "idle"
    /\ Called("rails_y_positions", <<top>>, rails_y_positions(top, board_height))
    /\ GeometryUnchanged

LibPadToCoords(pad) ==
    pc = "idle" /\ Called("pad_to_coords", <<pad>>, pad_to_coords(pad)) /\ GeometryUnchanged

LibDrawResistor(comp) ==
    /\ pc = "idle"
    /\ Called("draw_resistor", <<comp.pins[1], comp.pins[2], comp.value>>,
              draw_resistor(comp.pins[1], comp.pins[2], comp.value))
    /\ GeometryUnchanged

LibDrawGroupedRailHoles(c, y_center) ==
    /\ pc = "idle"
    /\ Called("draw_grouped_rail_holes", <<c, y_center>>, Ok(draw_grouped_rail_holes(c, y_center)))
    /\ GeometryUnchanged

\* The rail rows draw_rails asks holes for.
RailRowInputs == {39, 301}

LibInit == pc = "idle" /\ Start

LibNext ==
    \/ \E c \in 1..MaxLibColumns, rt \in BOOLEAN, rb \in BOOLEAN : LibRenderBoard(c, rt, rb)
    \/ \E col \in (0..MaxLibColumns) \cup {FullColumns} : LibColToX(col)
    \/ \E i \in 0..9, t \in BOOLEAN : LibMiddleRowY(i, t)
    \/ \E top \in BOOLEAN : LibRailsYPositions(top)
    \/ \E pad \in PadInputs : LibPadToCoords(pad)
    \/ \E comp \in ComponentInputs : LibDrawResistor(comp)
    \/ \E c \in Columns, y \in RailRowInputs : LibDrawGroupedRailHoles(c, y)

LibSpec == LibInit /\ [][LibNext]_vars

\* ------------------------------------------------------------ claims
Range(seq) == {seq[i] : i \in 1..Len(seq)}
Count(d, by, kind) == Cardinality({i \in 1..Len(d) : d[i].by = by /\ d[i].kind = kind})
\* The primitives of d at the positions I, in the order of d.
Min(S) == CHOOSE x \in S : \A y \in S : x <= y
Max(S) == CHOOSE x \in S : \A y \in S : x >= y
SubDrawing(d, I) ==
    [k \in 1..Cardinality(I) |-> d[CHOOSE i \in I : Cardinality({j \in I : j < i}) = k - 1]]
HoleCx(p) == p.x + p.w \div 2
HoleCy(p) == p.y + p.h \div 2

\* A pad as the specification defines a valid one on a board of cols columns:
\* a row letter A..J followed by a decimal number in 1..cols.
PlainNumber(s) == s # <<>> /\ \A i \in 1..Len(s) : IsDigit(s[i])
SpecValidPad(pad, cols) ==
    LET p == upper(strip(pad)) IN
    /\ p # <<>>
    /\ Head(p) \in Range(ROW_LABELS)
    /\ PlainNumber(Tail(p))
    /\ DigitsValue(Tail(p), 0) \in 1..cols
InvalidPadErrors == {"IndexError", "ValueError", "KeyError"}

\* C1 (as claimed): on the 63-column board pad_to_coords raises the invalid-pad
\* error exactly for the pads with an unknown row letter, an unparsable column
\* or a column outside 1..63, and returns coordinates for every valid pad.
C1_InvalidPadRaises ==
    ret.fn = "pad_to_coords" =>
        IF SpecValidPad(ret.args[1], FullColumns)
        THEN ret.res.err = "none"
        ELSE ret.res.err \in InvalidPadErrors

\* C2 (as claimed): once main has read a resistor with a pad that cannot be
\* resolved on the board, the run has been aborted with invalid-pad and no
\* output document is written; a written document means every pad resolved.
C2_UnresolvedPadAborts ==
    LET bad == \E i \in 1..Len(comps) :
                   /\ lower(comps[i].type) = T_resistor
                   /\ \E k \in 1..2 : ~SpecValidPad(comps[i].pins[k], columns)
    IN  (caller = "main" /\ bad) =>
            pc = "raised" /\ error \in InvalidPadErrors /\ preview = <<>>

RailHoles(d) == Count(d, "rails_top", "hole") + Count(d, "rails_bottom", "hole")

\* C3 (as claimed): the 63-column drawing with both rail blocks holds 630
\* middle-field holes and 100 rail holes; every drawing holds columns*10
\* middle-field holes.
C3_Original ==
    svg # <<>> =>
        /\ Count(svg, "middle", "hole") = columns * 10
        /\ (columns = 63 /\ rail_top /\ rail_bottom) =>
               Count(svg, "middle", "hole") = 630 /\ RailHoles(svg) = 100

\* C3 (amended): every drawing holds columns*10 middle-field holes and 2*50
\* rail holes for each rail block drawn; the 63-column drawing with both rail
\* blocks holds 630 middle-field holes and 4*50 = 200 rail holes.
C3_HoleCounts ==
    svg # <<>> =>
        /\ Count(svg, "middle", "hole") = columns * 10
        /\ Count(svg, "rails_top", "hole") = (IF rail_top THEN 100 ELSE 0)
        /\ Count(svg, "rails_bottom", "hole") = (IF rail_bottom THEN 100 ELSE 0)
        /\ (columns = 63 /\ rail_top /\ rail_bottom) =>
               Count(svg, "middle", "hole") = 630 /\ RailHoles(svg) = 200
C3_Witness == svg # <<>> /\ columns = 63 /\ rail_top /\ rail_bottom

\* The column-number labels of a drawing, one sequence per rail line, left to
\* right in the order drawn.
NumberLines(d) ==
    LET N == {i \in 1..Len(d) : d[i].by = "numbers"}
    IN  {SubDrawing(d, {i \in N : d[i].y = y}) : y \in {d[i].y : i \in N}}
LargestMultiple(n, c) == CHOOSE m \in 0..c : m % n = 0 /\ m + n > c
\* Every rail line of labels: count labels, the i-th (from 0) at column
\* (i+1)*N + shift, showing start - i*N, never below N.
NumbersAt(d, c, shift) ==
    LET start == LargestMultiple(NUMBER_EVERY, c) IN
    /\ start >= NUMBER_EVERY => Cardinality(NumberLines(d)) = 2
    /\ \A L \in NumberLines(d) :
          /\ Len(L) = start \div NUMBER_EVERY
          /\ c = 63 => Len(L) = 12
          /\ \A k \in 1..Len(L) :
                /\ L[k].x = col_to_x(k * NUMBER_EVERY + shift)
                /\ py_int(L[k].text).val = start - (k - 1) * NUMBER_EVERY
                /\ py_int(L[k].text).val >= NUMBER_EVERY

\* C4 (as claimed): the labels sit at the x of columns 5, 10, ... (12 per rail
\* line for 63 columns) and show start, start-5, ..., 5.
C4_Original == svg # <<>> => NumbersAt(svg, columns, 0)

\* C4 (amended): the labels sit at the x of columns 4, 9, ..., one column left
\* of the multiples of 5 (12 per rail line for 63 columns, at columns 4..59),
\* and show start, start-5, ..., 5.
C4_NumbersShifted == svg # <<>> => NumbersAt(svg, columns, -1)
C4_Witness == svg # <<>> /\ columns = 63 /\ Count(svg, "numbers", "text_rot") = 24

\* C5: a rail row has 50 holes whatever the column count; inside a cluster
\* neighbours are one pitch apart; between clusters exactly one hole position
\* (one pitch) is left empty; the clusters start (S+Gc) pitches apart; no two
\* holes are closer than one pitch; the cursor is not moved after the last
\* cluster.
C5_RailGrouping ==
    ret.fn = "draw_grouped_rail_holes" =>
        LET hs == ret.res.val.parts
            xs == [i \in 1..Len(hs) |-> HoleCx(hs[i])]
        IN  /\ Len(hs) = 50
            /\ \A i \in 1..Len(hs) : hs[i].kind = "hole" /\ HoleCy(hs[i]) = ret.args[2]
            /\ \A i \in 1..(Len(hs) - 1) :
                  IF i % 5 # 0 THEN xs[i + 1] - xs[i] = CELL_W
                  ELSE /\ xs[i + 1] - xs[i] = 2 * CELL_W
                       /\ \A j \in 1..Len(hs) : xs[j] # xs[i] + CELL_W
            /\ \A i \in 1..Len(hs), j \in 1..Len(hs) : i < j => xs[j] - xs[i] >= CELL_W
            /\ \A g \in 1..9 : xs[5 * g + 1] - xs[5 * (g - 1) + 1] = (5 + 1) * CELL_W
            /\ ret.res.val.x = xs[46] - CELL_W
C5_Witness ==
    /\ ret.fn = "draw_grouped_rail_holes"
    /\ ret.args[1] = 63
    /\ Len(ret.res.val.parts) = 50

DrawRank(by) == CASE by = "background" -> 1 [] by = "rails_top" -> 2 [] by = "numbers" -> 3
                  [] by = "middle" -> 4 [] by = "row_labels" -> 5 [] by = "rails_bottom" -> 6
                  [] by = "resistor" -> 7 [] OTHER -> 0
\* No primitive of a later group comes before a primitive of an earlier group.
InDrawOrder(d) ==
    LET at == [r \in 1..7 |-> {i \in 1..Len(d) : DrawRank(d[i].by) = r}]
    IN  \A r \in 1..7, q \in 1..7 :
            (r < q /\ at[r] # {} /\ at[q] # {}) => Max(at[r]) < Min(at[q])
InsideDrawing(d, i) ==
    /\ \E a \in 1..Len(d) : a < i /\ d[a].kind = "svg_open"
    /\ \A b \in 1..Len(d) : d[b].kind = "svg_close" => i < b

\* C6 (as claimed): what is emitted follows the draw order background, top
\* rails, column numbers, middle field, row labels, bottom rails, component
\* overlays, and the overlays are part of the drawing of the board.
C6_DrawOrder ==
    /\ InDrawOrder(parts)
    /\ InDrawOrder(svg \o comp_svg)
    /\ InDrawOrder(preview)
    /\ \A i \in 1..Len(preview) : preview[i].by = "resistor" => InsideDrawing(preview, i)

\* C7 (as claimed): a geometry function called again with the same arguments
\* returns what it returned before, whatever render_board calls happened in
\* between, and no call fails for want of an earlier render.
C7_Pure ==
    /\ [](ret.res.err # "NameError")
    /\ [][(ret.fn = ret'.fn /\ ret.args = ret'.args) => ret'.res = ret.res]_vars

\* The height of the canvas of a board with the given rail blocks.
SpecHeight(rt, rb) ==
    MARGIN_Y + (IF rt THEN 2 * CELL_H + RAIL_GAP ELSE 0) + 10 * CELL_H + TRENCH_H
    + (IF rb THEN 2 * CELL_H + RAIL_GAP ELSE 0) + MARGIN_Y
BottomFrom(d, h) ==
    LET yb == rails_y_positions(FALSE, <<h>>).val
        yt == rails_y_positions(TRUE, <<h>>).val
    IN  /\ \A i \in 1..Len(d) :
              (d[i].by = "rails_bottom" /\ d[i].kind = "hole") => HoleCy(d[i]) \in {yb[1], yb[2]}
        /\ \A i \in 1..Len(d) :
              d[i].by = "numbers" =>
                  d[i].y \in {yt[2] + RAIL_LINE_OFFSET + NUM_TOP_OFFSET,
                              yb[1] - RAIL_LINE_OFFSET - NUM_BOTTOM_OFFSET}
InCall == pc \in Range(RenderOrder) \cup {"return"}

\* C8: from the first placement of a render_board call to its return the
\* global height is the height of that call's own canvas, and the bottom rail
\* rows and bottom column numbers of its drawing are placed from that height.
C8_HeightOfOwnCall ==
    /\ InCall => /\ board_height = <<SpecHeight(rail_top, rail_bottom)>>
                 /\ BottomFrom(parts, SpecHeight(rail_top, rail_bottom))
    /\ svg # <<>> => BottomFrom(svg, SpecHeight(rail_top, rail_bottom))
C8_Witness ==
    /\ pc = "return"
    /\ rail_bottom
    /\ prev_board_height # <<>>
    /\ prev_board_height # board_height
    /\ Count(parts, "rails_bottom", "hole") = 100
    /\ Count(parts, "numbers", "text_rot") > 0

\* C9 (as claimed): draw_resistor on two distinct valid pads draws the
\* connector between the two pad centres and puts the label at the midpoint
\* moved perpendicular to the connector.
C9_LabelPerpendicular ==
    (ret.fn = "draw_resistor" /\ ret.res.err = "none" /\ ret.args[1] # ret.args[2]) =>
        LET c1 == pad_to_coords(ret.args[1]).val
            c2 == pad_to_coords(ret.args[2]).val
            ln == ret.res.val[1]
            lb == ret.res.val[2]
        IN  /\ <<ln.x, ln.y>> = c1 /\ <<ln.x2, ln.y2>> = c2
            /\ (2 * lb.x - (c1[1] + c2[1])) * (c2[1] - c1[1])
               + (2 * lb.y - (c1[2] + c2[2])) * (c2[2] - c1[2]) = 0

\* C10 (as claimed): in every drawing the top rail hole rows lie strictly
\* above row A and the bottom rail hole rows strictly below row J.
C10_RailsClearOfMiddle ==
    svg # <<>> =>
        LET rows(by) == {HoleCy(svg[i]) : i \in {j \in 1..Len(svg) : svg[j].by = by /\ svg[j].kind = "hole"}}
        IN  /\ \A t \in rows("rails_top"), m \in rows("middle") : t < m
            /\ \A b \in rows("rails_bottom"), m \in rows("middle") : b > m
====
